---- MODULE Spec2Model ----
(***************************************************************************)
(* A model of the client-side real-time orchestration core of the          *)
(* dashboard: the push-channel connection of dashboard.js (Dashboard:      *)
(* connectWebSocket, attemptReconnect, the socket handlers and the         *)
(* activity feed), the conversation pipeline of dashboard.js (sendMessage, *)
(* executeIntent, refineRequest, clearConversation) and the voice machine  *)
(* of voice_interface.js (VoiceInterface: startListening, stopListening,   *)
(* speak, stopSpeaking, toggleContinuousListening and the recognition and  *)
(* utterance callbacks).                                                   *)
(*                                                                         *)
(* The browser is single-threaded: every handler runs to completion, so    *)
(* each action below is one whole handler (or one whole continuation of an *)
(* async function between two awaits).  Timers, socket events, speech      *)
(* events and HTTP responses are delivered in any order.                   *)
(***************************************************************************)
EXTENDS Integers, Sequences, FiniteSets, TLC

\* ------------------------------------------------------------------ bounds
\* sockets ever created in one run (the first one and the reconnects)
MaxSockets == 6
\* push frames delivered in one run
MaxFrames == 1
\* disconnect() calls in one run
MaxDisconnects == 1
\* sockets created in a run of SpecPush
MaxPushSockets == 2
\* frames delivered in a run of SpecPush
MaxPushFrames == 3
\* utterances handed to the synthesizer in one run
MaxUtterances == 2
\* setTimeout(() => this.startListening()) callbacks pending at once
MaxVoiceTimers == 1
\* messages submitted through sendMessage in one run
MaxSubmits == 2
\* executeIntent calls in one run
MaxExecutes == 2

\* largest maxRetries passed to loadWithRetry in SpecRetry
MaxRetries == 3
\* loadWithRetry calls in a run of SpecRetry
MaxRetryCalls == 2

\* addActivityItem calls in a run of SpecFeed
MaxAppended == 120
\* final transcripts delivered to recognition.onresult
MaxTranscripts == 1
\* typed submits in a run of SpecTranscript
MaxTyped == 1
\* rate commands in a run of SpecSpeed
MaxSpeedCommands == 4
\* voices in the synthesizer's list
NumVoices == 2
\* refresh frames in a run of SpecRefresh
MaxRefreshes == 1

\* ------------------------------------------------------- program constants
\* loadWithRetry waits 1000 * attempt before the next attempt
retryUnitDelay == 1000
maxReconnectAttempts == 5
reconnectDelay == 1000
\* "Keep only last 50 items"
ActivityCap == 50

VARIABLES
    \* ---- Dashboard: push channel
    initPc,             \* position of init(): "start" before its connectWebSocket() call
    sockets,            \* the WebSocket objects created so far, each one's phase
    websocket,          \* this.websocket: index of the current handle, 0 for null
    reconnectAttempts,  \* this.reconnectAttempts
    reconnectTimers,    \* pending setTimeout callbacks of attemptReconnect: their delays
    activityFeed,       \* children of #activity-feed, newest first
    frames,             \* the push frames delivered to onmessage so far
    disconnects,        \* number of disconnect() calls so far
    cycle,              \* history: delays scheduled since the last successful open
    \* ---- VoiceInterface
    voice,              \* the VoiceInterface object, its recognizer and the synthesizer
    \* ---- Dashboard: conversation
    chat,               \* children of #chat-messages, oldest first
    currentIntent,      \* this.currentIntent: NoIntent for null, else the stored result
    understandPending,  \* sendMessage calls awaiting /api/ai/understand-request
    submits,            \* messages submitted so far (each one's number names it)
    modalOpen,          \* #intent-modal is shown
    execRequests,       \* the requests sent to /api/ai/execute-intent so far
    execPending,        \* executeIntent calls awaiting their response
    alerts,             \* alert('No intent to execute') dialogs shown so far
    lw,                 \* the loadWithRetry call in progress, or the last one
    load,               \* the position of loadInitialData: pc and the index of
                        \* the optional loader being awaited
    trace,              \* history: <<name, event>> for every load task invoked
                        \* ("call") and every request settled ("ok", "fail")
    appended,           \* history: addActivityItem calls made by LogItem so far
    heard,              \* history: the final transcripts delivered by the recognizer
    voiceRequests,      \* the requests of sendVoiceMessageToDashboard: the text
                        \* sent and the status ("pending", "failed", "error",
                        \* "answered")
    voiceSpeed,         \* settings.voiceSpeed, in tenths
    persist,            \* the voice interface's startup and what it persists:
                        \*   pc  the position of VoiceInterface.init
                        \*   voices  this.voices holds the synthesizer's list
                        \*   currentVoice  the selected voice, 0 for none
                        \*   saved  the localStorage key voiceInterfaceSettings
    refreshRuns         \* the runs of loadInitialData started by a refresh, in
                        \* the order of their calls: each one's loadWithRetry
                        \* frame (lw) and position (load)

connVars == <<initPc, sockets, websocket, reconnectAttempts, reconnectTimers,
              activityFeed, frames, disconnects, cycle>>

voiceVars == <<voice>>
pipeVars == <<chat, currentIntent, understandPending, submits, modalOpen,
              execRequests, execPending, alerts>>
loaderVars == <<lw, load, trace, appended>>
transcriptVars == <<heard, voiceRequests, voiceSpeed>>
restVars == <<persist, refreshRuns>>
notConnVars == <<voiceVars, pipeVars, loaderVars, transcriptVars, restVars>>
\* the push-channel state without the activity feed
channelVars == <<initPc, sockets, websocket, reconnectAttempts, reconnectTimers,
                 frames, disconnects, cycle>>

vars == <<initPc, sockets, websocket, reconnectAttempts, reconnectTimers,
          activityFeed, frames, disconnects, cycle, voice,
          chat, currentIntent, understandPending, submits, modalOpen,
          execRequests, execPending, alerts, lw, load, trace, appended,
          heard, voiceRequests, voiceSpeed, persist, refreshRuns>>

Min(a, b) == IF a < b THEN a ELSE b
Count(seq, x) == Cardinality({i \in 1..Len(seq) : seq[i] = x})

\* ------------------------------------------------------------ activity feed
\* addActivityItem with a removal loop that stops one item early
AddActivityItemKeepsOneMore(feed, item) ==
    SubSeq(<<item>> \o feed, 1, Min(Len(feed) + 1, ActivityCap + 1))

\* items are named by what they report: "established", "lost", "error",
\* "createFailed", "terminal" ('please refresh the page'), "task_started",
\* "analysis_started"
\* addActivityItem: insert at the top, then drop from the bottom while there
\* are more than 50 children
AddActivityItem(feed, item) ==
    LET grown == <<item>> \o feed
    IN  SubSeq(grown, 1, Min(Len(grown), ActivityCap))

\* ------------------------------------------------- a call of loadWithRetry
\* loadWithRetry(loadFunction, name, maxRetries), the later of the two
\* definitions in the class (the one a call reaches).  A call is the record
\*   name, maxRetries   its arguments
\*   attempt            the loop variable
\*   at      "task" (loadFunction awaited), "wait" (the setTimeout promise
\*           awaited), "done" (returned)
\*   calls   history: invocations of loadFunction in this call
\*   waits   history: the delays of the timers set in this call
\*   warned  history: 'unavailable' items this call appended
IdleLoad ==
    [name |-> "none", maxRetries |-> 0, attempt |-> 0, at |-> "done",
     calls |-> 0, waits |-> <<>>, warned |-> 0]

\* entry of loadWithRetry up to the first await
LoadWithRetry(name, maxRetries) ==
    [name |-> name, maxRetries |-> maxRetries, attempt |-> 1,
     at |-> IF 1 <= maxRetries THEN "task" ELSE "done",
     calls |-> IF 1 <= maxRetries THEN 1 ELSE 0,
     waits |-> <<>>, warned |-> 0]

\* loadInitialData passes 2 as maxRetries for each required step
requiredRetries == 2

\* loadInitialData() called without being awaited: the run up to its first
\* await, the Industry Configurations request inside loadWithRetry
StartedRun ==
    [lw |-> LoadWithRetry("Industry Configurations", requiredRetries),
     load |-> [pc |-> "required", opt |-> 0]]

\* --------------------------------------------------------------- push frames
\* a frame is malformed (JSON.parse throws) or carries a type tag
FrameKinds == {"malformed", "task_started", "unknown_tag"}

\* handleWebSocketMessage, on the feed: the task_started case appends one item
\* and so does handleDiscoveryCompleted for discovery_completed;
\* the default branch only writes to the console
HandleWebSocketMessage(feed, kind) ==
    IF kind \in {"task_started", "discovery_completed"}
    THEN AddActivityItem(feed, kind)
    ELSE feed

\* websocket.onmessage: try { JSON.parse; handleWebSocketMessage } catch { console.error }
OnMessageFeed(feed, kind) ==
    IF kind = "malformed" THEN feed ELSE HandleWebSocketMessage(feed, kind)

\* the frames that report on the execution of an Intent
ExecutionFrameKinds ==
    {"intent_execution_started", "intent_execution_completed", "intent_execution_failed"}

\* handleIntentExecutionUpdate that reports a completion twice
HandleIntentExecutionUpdateTwice(msgs, kind) ==
    CASE kind = "intent_execution_started" -> Append(msgs, "pipeline_started")
      [] kind = "intent_execution_completed" -> Append(Append(msgs, "completed"), "completed")
      [] kind = "intent_execution_failed" -> Append(msgs, "error")
      [] OTHER -> msgs

\* handleIntentExecutionUpdate, on the chat: one addChatMessage per event
HandleIntentExecutionUpdate(msgs, kind) ==
    CASE kind = "intent_execution_started" -> Append(msgs, "pipeline_started")
      [] kind = "intent_execution_completed" -> Append(msgs, "completed")
      [] kind = "intent_execution_failed" -> Append(msgs, "error")
      [] OTHER -> msgs

\* handleIntentExecutionUpdate, on the loaders: a completion calls loadReports,
\* loadReportsViewer and loadInitialData without awaiting them
ExecutionRefresh(kind) ==
    IF kind = "intent_execution_completed"
    THEN << <<"Reports", "call">>, <<"Reports Viewer", "call">>,
            <<"loadInitialData", "call">> >>
    ELSE <<>>

\* handleDiscoveryCompleted, on the loaders: loadInitialData and loadReports
\* are called without being awaited
DiscoveryRefresh(kind) ==
    IF kind = "discovery_completed"
    THEN << <<"loadInitialData", "call">>, <<"Reports", "call">> >>
    ELSE <<>>

\* the frames whose handler calls loadInitialData
RefreshFrameKinds == {"discovery_completed", "intent_execution_completed"}
\* the runs of loadInitialData after the handler of a frame has returned
RunsAfterFrame(runs, kind) ==
    IF kind \in RefreshFrameKinds THEN Append(runs, StartedRun) ELSE runs

\* ------------------------------------------------------------- reconnection
\* attemptReconnect with the delay doubling per attempt instead of growing linearly
AttemptReconnectExponential(att, tm, feed) ==
    IF att < maxReconnectAttempts
    THEN [att |-> att + 1,
          timers |-> Append(tm, reconnectDelay * (2 ^ att)),
          feed |-> feed,
          scheduled |-> TRUE]
    ELSE [att |-> att,
          timers |-> tm,
          feed |-> AddActivityItem(feed, "terminal"),
          scheduled |-> FALSE]

\* attemptReconnect with the cap compared by <= instead of <
AttemptReconnectOffByOne(att, tm, feed) ==
    IF att <= maxReconnectAttempts
    THEN [att |-> att + 1,
          timers |-> Append(tm, reconnectDelay * (att + 1)),
          feed |-> feed,
          scheduled |-> TRUE]
    ELSE [att |-> att,
          timers |-> tm,
          feed |-> AddActivityItem(feed, "terminal"),
          scheduled |-> FALSE]

\* attemptReconnect, as a function of (reconnectAttempts, timers, feed)
AttemptReconnect(att, tm, feed) ==
    IF att < maxReconnectAttempts
    THEN [att |-> att + 1,
          timers |-> Append(tm, reconnectDelay * (att + 1)),
          feed |-> feed,
          scheduled |-> TRUE]
    ELSE [att |-> att,
          timers |-> tm,
          feed |-> AddActivityItem(feed, "terminal"),
          scheduled |-> FALSE]

\* connectWebSocket: new WebSocket(wsUrl) either returns a socket, whose handlers
\* are then installed, or throws, which the catch turns into one feed item
ConnectWebSocket(throws) ==
    IF throws
    THEN /\ activityFeed' = AddActivityItem(activityFeed, "createFailed")
         /\ UNCHANGED <<sockets, websocket>>
    ELSE /\ sockets' = Append(sockets, "connecting")
         /\ websocket' = Len(sockets) + 1
         /\ UNCHANGED activityFeed

\* init(): the one connectWebSocket() call of startup
InitConnect ==
    /\ initPc = "start"
    /\ initPc' = "connected"
    /\ \E throws \in BOOLEAN : ConnectWebSocket(throws)
    /\ UNCHANGED <<reconnectAttempts, reconnectTimers, frames, disconnects, cycle, notConnVars>>

\* the setTimeout callback of attemptReconnect: connectWebSocket()
ReconnectTimerFires(i) ==
    /\ i \in 1..Len(reconnectTimers)
    /\ Len(sockets) < MaxSockets
    /\ reconnectTimers' = [j \in 1..(Len(reconnectTimers) - 1) |->
                              IF j < i THEN reconnectTimers[j] ELSE reconnectTimers[j + 1]]
    /\ \E throws \in BOOLEAN : ConnectWebSocket(throws)
    /\ UNCHANGED <<initPc, reconnectAttempts, frames, disconnects, cycle, notConnVars>>

\* websocket.onopen without the reset of the attempt counter
WebsocketOnOpenNoReset(s) ==
    /\ s \in 1..Len(sockets)
    /\ sockets[s] = "connecting"
    /\ sockets' = [sockets EXCEPT ![s] = "open"]
    /\ activityFeed' = AddActivityItem(activityFeed, "established")
    /\ cycle' = <<>>
    /\ UNCHANGED <<initPc, websocket, reconnectAttempts, reconnectTimers, frames, disconnects, notConnVars>>

\* websocket.onopen
WebsocketOnOpen(s) ==
    /\ s \in 1..Len(sockets)
    /\ sockets[s] = "connecting"
    /\ sockets' = [sockets EXCEPT ![s] = "open"]
    /\ reconnectAttempts' = 0
    /\ activityFeed' = AddActivityItem(activityFeed, "established")
    /\ cycle' = <<>>
    /\ UNCHANGED <<initPc, websocket, reconnectTimers, frames, disconnects, notConnVars>>

\* websocket.onmessage that gives up the connection on a frame it cannot parse
WebsocketOnMessageClosesOnParseError(s, kind) ==
    /\ s \in 1..Len(sockets)
    /\ sockets[s] = "open"
    /\ frames' = Append(frames, kind)
    /\ activityFeed' = OnMessageFeed(activityFeed, kind)
    /\ chat' = HandleIntentExecutionUpdate(chat, kind)
    /\ trace' = trace \o ExecutionRefresh(kind) \o DiscoveryRefresh(kind)
    /\ refreshRuns' = RunsAfterFrame(refreshRuns, kind)
    /\ sockets' = IF kind = "malformed" THEN [sockets EXCEPT ![s] = "closing"] ELSE sockets
    /\ UNCHANGED <<initPc, websocket, reconnectAttempts, reconnectTimers, disconnects, cycle,
                   voiceVars, currentIntent, understandPending, submits, modalOpen,
                   execRequests, execPending, alerts, lw, load, appended, transcriptVars,
                   persist>>

\* websocket.onmessage: JSON.parse and the dispatch run inside one try block
WebsocketOnMessage(s, kind) ==
    /\ s \in 1..Len(sockets)
    /\ sockets[s] = "open"
    /\ frames' = Append(frames, kind)
    /\ activityFeed' = OnMessageFeed(activityFeed, kind)
    /\ chat' = HandleIntentExecutionUpdate(chat, kind)
    /\ trace' = trace \o ExecutionRefresh(kind) \o DiscoveryRefresh(kind)
    /\ refreshRuns' = RunsAfterFrame(refreshRuns, kind)
    /\ UNCHANGED <<initPc, sockets, websocket, reconnectAttempts, reconnectTimers,
                   disconnects, cycle, voiceVars, currentIntent, understandPending,
                   submits, modalOpen, execRequests, execPending, alerts, lw, load,
                   appended, transcriptVars, persist>>

\* websocket.onerror that also starts a reconnect, as onclose does
WebsocketOnErrorReconnects(s) ==
    /\ s \in 1..Len(sockets)
    /\ sockets[s] \in {"connecting", "open"}
    /\ sockets' = [sockets EXCEPT ![s] = "errored"]
    /\ LET r == AttemptReconnect(reconnectAttempts, reconnectTimers,
                                 AddActivityItem(activityFeed, "error"))
       IN  /\ reconnectAttempts' = r.att
           /\ reconnectTimers' = r.timers
           /\ activityFeed' = r.feed
    /\ UNCHANGED <<initPc, websocket, frames, disconnects, cycle, notConnVars>>

\* websocket.onerror: the connection has failed (it could not be established, or
\* an established one broke); the browser delivers the close event next
WebsocketOnError(s) ==
    /\ s \in 1..Len(sockets)
    /\ sockets[s] \in {"connecting", "open"}
    /\ sockets' = [sockets EXCEPT ![s] = "errored"]
    /\ activityFeed' = AddActivityItem(activityFeed, "error")
    /\ UNCHANGED <<initPc, websocket, reconnectAttempts, reconnectTimers, frames, disconnects, cycle, notConnVars>>

\* websocket.onclose: one feed item, then attemptReconnect().  The close event
\* comes after an error event, after the server closed an open connection, or
\* after the client closed the handle
WebsocketOnClose(s) ==
    /\ s \in 1..Len(sockets)
    /\ sockets[s] \in {"open", "closing", "errored"}
    /\ sockets' = [sockets EXCEPT ![s] = "closed"]
    /\ LET r == AttemptReconnect(reconnectAttempts, reconnectTimers,
                                 AddActivityItem(activityFeed, "lost"))
       IN  /\ reconnectAttempts' = r.att
           /\ reconnectTimers' = r.timers
           /\ activityFeed' = r.feed
           /\ cycle' = IF r.scheduled
                       THEN Append(cycle, r.timers[Len(r.timers)])
                       ELSE cycle
    /\ UNCHANGED <<initPc, websocket, frames, disconnects, notConnVars>>

\* a frame is delivered to the onmessage handler of an open socket
FrameArrives(s, kind) ==
    /\ Len(frames) < MaxFrames
    /\ WebsocketOnMessage(s, kind)

\* disconnect(): an intentional close of the current handle
Disconnect ==
    /\ websocket \in 1..Len(sockets)
    /\ sockets[websocket] \in {"connecting", "open"}
    /\ disconnects < MaxDisconnects
    /\ disconnects' = disconnects + 1
    /\ sockets' = [sockets EXCEPT ![websocket] = "closing"]
    /\ UNCHANGED <<initPc, websocket, reconnectAttempts, reconnectTimers,
                   activityFeed, frames, cycle, notConnVars>>

\* ========================================================== VoiceInterface
\* voice is the VoiceInterface object together with the two browser objects it
\* drives:
\*   isListening, isSpeaking   the object's flags
\*   continuousListening       settings.continuousListening
\*   rec     the recognition session: "inactive", "starting" (start() called, the
\*           start event not yet delivered), "active", "stopping" (stop() called,
\*           the end event pending), "errored" (error delivered, end pending)
\*   synth   the utterance held by the synthesizer: "none", "pending" (handed by
\*           speak(), its start event not yet delivered), "speaking"
\*   stale   utterances removed by cancel() whose end/error event is still to be
\*           delivered to their handlers
\*   timers  pending setTimeout(() => this.startListening()) callbacks
\*   utterances  utterances handed to synthesis.speak() so far
\*   carried history: the utterance the synthesizer holds was already in flight
\*           when the current recognition session was started
\*   startRefused  history: recognition.start() was invoked on a session that had
\*           been started and had not ended
\*   completed  history: the end events delivered to utterance.onend so far
\*   stopped  history: the user's last request about listening was a stop that
\*           reached recognition.stop() (the stop button, Escape, the 'stop
\*           listening' command), with no start or continuous toggle since
SpeakTexts == {"empty", "markupOnly", "text"}

RecActive(v) == v.rec \in {"starting", "active"}
InFlight(v) == v.synth \in {"pending", "speaking"}

\* speechSynthesis.cancel(): the queue is emptied; the removed utterance's
\* handlers are still called later
SynthesisCancel(v) ==
    IF InFlight(v)
    THEN [v EXCEPT !.synth = "none", !.stale = @ + 1, !.carried = FALSE]
    ELSE v

\* stopSpeaking()
StopSpeaking(v) ==
    IF ~v.isSpeaking
    THEN v
    ELSE [SynthesisCancel(v) EXCEPT !.isSpeaking = FALSE]

\* recognition.start(): throws InvalidStateError when a session has been started
\* and has not ended; startListening catches it
RecognitionStart(v) ==
    IF v.rec = "inactive"
    THEN [v EXCEPT !.rec = "starting", !.carried = InFlight(v)]
    ELSE [v EXCEPT !.startRefused = TRUE]

\* startListening()
StartListening(v) ==
    IF v.isListening
    THEN v
    ELSE RecognitionStart(StopSpeaking(v))

\* stopListening(): recognition.stop() ends an active session
StopListening(v) ==
    IF ~v.isListening
    THEN v
    ELSE IF v.rec = "active" THEN [v EXCEPT !.rec = "stopping"] ELSE v

\* stopListening() called for the stop button, Escape or the 'stop listening'
\* command
ExplicitStop(v) == [StopListening(v) EXCEPT !.stopped = @ \/ v.isListening]
\* the user asks for listening, or toggles continuous listening
ExplicitRequest(v) == [v EXCEPT !.stopped = FALSE]

\* speak(text): nothing for a falsy text; otherwise cancel(), and, unless the
\* cleaned text is blank, a new utterance handed to the synthesizer
Speak(v, text) ==
    IF text = "empty"
    THEN v
    ELSE IF text = "markupOnly"
         THEN SynthesisCancel(v)
         ELSE [SynthesisCancel(v) EXCEPT !.synth = "pending",
                                         !.utterances = @ + 1,
                                         !.carried = FALSE]

\* toggleListening()
ToggleListening(v) ==
    IF v.isListening THEN StopListening(v) ELSE StartListening(ExplicitRequest(v))

\* toggleContinuousListening()
ToggleContinuousListening(v) ==
    LET w == [ExplicitRequest(v) EXCEPT !.continuousListening = ~@]
    IN  IF w.continuousListening
        THEN StartListening(Speak(w, "text"))
        ELSE StopListening(Speak(w, "text"))

\* keydown Escape: stopListening(); stopSpeaking()
Escape(v) == StopSpeaking(ExplicitStop(v))

\* setTimeout(() => this.startListening(), ms)
ScheduleStartListening(v) == [v EXCEPT !.timers = @ + 1]

\* recognition.onstart
RecognitionOnStart(v) == [v EXCEPT !.rec = "active", !.isListening = TRUE]

\* recognition.onerror
RecognitionOnError(v) == [v EXCEPT !.rec = "errored", !.isListening = FALSE]

\* recognition.onend
RecognitionOnEnd(v) ==
    LET w == [v EXCEPT !.rec = "inactive", !.isListening = FALSE, !.carried = FALSE]
    IN  IF w.continuousListening /\ ~w.isSpeaking
        THEN ScheduleStartListening(w)
        ELSE w

\* utterance.onstart
UtteranceOnStart(v) == [v EXCEPT !.isSpeaking = TRUE]

\* an end handler that only clears the speaking flag
UtteranceOnEndNoResume(v) == [v EXCEPT !.isSpeaking = FALSE, !.completed = @ + 1]

\* utterance.onend
UtteranceOnEnd(v) ==
    LET w == [v EXCEPT !.isSpeaking = FALSE, !.completed = @ + 1]
    IN  IF w.continuousListening /\ ~w.isListening
        THEN ScheduleStartListening(w)
        ELSE w

\* utterance.onerror
UtteranceOnError(v) == [v EXCEPT !.isSpeaking = FALSE]

\* ---- what the voice interface persists
\* localStorage without the key voiceInterfaceSettings
NoSaved ==
    [present |-> FALSE, voiceSpeed |-> 0, continuousListening |-> FALSE,
     currentVoiceName |-> 0]

\* loadVoices picks the first voice of the language, a Neural one if there is
\* one: the same voice for the same list
DefaultVoice == 1

\* saveSettings(): the settings and currentVoice?.name go to localStorage
SaveSettings(p, speed, continuous) ==
    [p EXCEPT !.saved = [present |-> TRUE, voiceSpeed |-> speed,
                         continuousListening |-> continuous,
                         currentVoiceName |-> p.currentVoice]]

\* loadVoices(): this.voices is what getVoices() returns, and currentVoice is
\* the default pick of that list (undefined for an empty list)
LoadVoices(p, listed) ==
    [p EXCEPT !.voices = listed,
              !.currentVoice = IF listed THEN DefaultVoice ELSE 0]

\* ---- the events of the voice machine
VoiceStepWith(w, p) ==
    /\ w.timers <= MaxVoiceTimers
    /\ w.utterances <= MaxUtterances
    /\ voice' = w
    /\ persist' = p
    /\ UNCHANGED <<connVars, pipeVars, loaderVars, transcriptVars, refreshRuns>>

VoiceStep(w) == VoiceStepWith(w, persist)

\* click on #start-voice-input, or Ctrl/Cmd+Shift+V
UserToggleListening == VoiceStep(ToggleListening(voice))
\* click on #stop-voice-input
UserStopListening == VoiceStep(ExplicitStop(voice))
\* click on #toggle-continuous-listening
UserToggleContinuous ==
    /\ persist.pc = "ready"
    /\ VoiceStepWith(ToggleContinuousListening(voice),
                     SaveSettings(persist, voiceSpeed, ~voice.continuousListening))
\* keydown Escape
UserEscape == VoiceStep(Escape(voice))
\* a caller (a response handler, a voice command, the message's speak button)
\* calls speak(text)
CallSpeak(text) == VoiceStep(Speak(voice, text))

\* the setTimeout callback: startListening()
StartTimerFires ==
    /\ voice.timers > 0
    /\ VoiceStep(StartListening([voice EXCEPT !.timers = @ - 1]))

\* the recognizer delivers start
RecStartEvent ==
    /\ voice.rec = "starting"
    /\ VoiceStep(RecognitionOnStart(voice))

\* the recognizer delivers error (no-speech, not-allowed, network, aborted, ...);
\* end follows
RecErrorEvent ==
    /\ voice.rec \in {"starting", "active", "stopping"}
    /\ VoiceStep(RecognitionOnError(voice))

\* the recognizer delivers end: the session stopped, failed, or ended by itself
RecEndEvent ==
    /\ voice.rec \in {"active", "stopping", "errored"}
    /\ VoiceStep(RecognitionOnEnd(voice))

\* the synthesizer starts the pending utterance
UtterStartEvent ==
    /\ voice.synth = "pending"
    /\ VoiceStep(UtteranceOnStart([voice EXCEPT !.synth = "speaking"]))

\* the synthesizer finishes the utterance being spoken
UtterEndEvent ==
    /\ voice.synth = "speaking"
    /\ VoiceStep(UtteranceOnEnd([voice EXCEPT !.synth = "none", !.carried = FALSE]))

\* the synthesizer fails on the utterance it holds
UtterErrorEvent ==
    /\ InFlight(voice)
    /\ VoiceStep(UtteranceOnError([voice EXCEPT !.synth = "none", !.carried = FALSE]))

\* an utterance removed by cancel() gets its end event, its error event, or (for
\* one that had not started, in some browsers) no event at all
StaleUtterEvent(how) ==
    /\ voice.stale > 0
    /\ LET w == [voice EXCEPT !.stale = @ - 1]
       IN  VoiceStep(CASE how = "end" -> UtteranceOnEnd(w)
                       [] how = "error" -> UtteranceOnError(w)
                       [] OTHER -> w)

\* ======================================================= conversation pipeline
NoIntent == [text |-> 0, confidence |-> 0]

\* confidence of an understanding result, in hundredths
Confidences == {70, 71}

\* what comes back from /api/ai/understand-request: the fetch or the JSON
\* decoding fails, the body carries an error, or it is a result with a confidence
UnderstandOutcomes ==
    {[kind |-> "failed", confidence |-> 0], [kind |-> "error", confidence |-> 0]}
       \cup {[kind |-> "result", confidence |-> c] : c \in Confidences}

\* addChatMessage(message, sender, type), by what the message is
AddChatMessage(msgs, m) == Append(msgs, m)

\* sendMessage, up to its await of the fetch: the user's message is appended and
\* the request leaves
SendMessage ==
    /\ submits < MaxSubmits
    /\ submits' = submits + 1
    /\ chat' = AddChatMessage(chat, "user")
    /\ understandPending' = understandPending \cup {submits + 1}
    /\ UNCHANGED <<currentIntent, modalOpen, execRequests, execPending, alerts,
                   connVars, voiceVars, loaderVars, transcriptVars, restVars>>

\* a test that lets the threshold itself through
ShowsIntentModalAtThreshold(confidence) == confidence >= 70

\* showIntentModal is reached only when confidence > 0.7
ShowsIntentModal(confidence) == confidence > 70

\* sendMessage, from the response on
SendMessageResponse(req, out, questions) ==
    /\ req \in understandPending
    /\ understandPending' = understandPending \ {req}
    /\ IF out.kind \in {"failed", "error"}
       THEN /\ chat' = AddChatMessage(chat, "error")
            /\ UNCHANGED <<currentIntent, modalOpen>>
       ELSE /\ currentIntent' = [text |-> req, confidence |-> out.confidence]
            /\ IF ShowsIntentModal(out.confidence)
               THEN /\ chat' = AddChatMessage(chat, "understood")
                    /\ modalOpen' = TRUE
               ELSE \* handleClarificationNeeded
                    /\ chat' = IF questions
                               THEN AddChatMessage(AddChatMessage(chat, "understood"),
                                                   "clarify")
                               ELSE AddChatMessage(chat, "understood")
                    /\ UNCHANGED modalOpen
    /\ UNCHANGED <<submits, execRequests, execPending, alerts, connVars, voiceVars, loaderVars, transcriptVars, restVars>>

\* executeIntent sending its request a second time
ExecuteIntentResends ==
    /\ Len(execRequests) + alerts < MaxExecutes
    /\ IF currentIntent = NoIntent
       THEN /\ alerts' = alerts + 1
            /\ UNCHANGED <<chat, modalOpen, execRequests, execPending>>
       ELSE /\ modalOpen' = FALSE
            /\ chat' = AddChatMessage(chat, "starting")
            /\ execRequests' = execRequests \o <<currentIntent, currentIntent>>
            /\ execPending' = execPending + 1
            /\ UNCHANGED alerts
    /\ UNCHANGED <<currentIntent, understandPending, submits, connVars, voiceVars, loaderVars, transcriptVars, restVars>>

\* executeIntent without its test of this.currentIntent
ExecuteIntentUnchecked ==
    /\ Len(execRequests) + alerts < MaxExecutes
    /\ modalOpen' = FALSE
    /\ chat' = AddChatMessage(chat, "starting")
    /\ execRequests' = Append(execRequests, currentIntent)
    /\ execPending' = execPending + 1
    /\ UNCHANGED <<alerts, currentIntent, understandPending, submits, connVars,
                   voiceVars, loaderVars, transcriptVars, restVars>>

\* executeIntent, up to its await of the fetch
ExecuteIntent ==
    /\ Len(execRequests) + alerts < MaxExecutes
    /\ IF currentIntent = NoIntent
       THEN /\ alerts' = alerts + 1
            /\ UNCHANGED <<chat, modalOpen, execRequests, execPending>>
       ELSE /\ modalOpen' = FALSE
            /\ chat' = AddChatMessage(chat, "starting")
            /\ execRequests' = Append(execRequests, currentIntent)
            /\ execPending' = execPending + 1
            /\ UNCHANGED alerts
    /\ UNCHANGED <<currentIntent, understandPending, submits, connVars, voiceVars, loaderVars, transcriptVars, restVars>>

\* executeIntent, from the response on
ExecuteIntentResponse(kind) ==
    /\ execPending > 0
    /\ execPending' = execPending - 1
    /\ IF kind = "accepted"
       THEN /\ chat' = AddChatMessage(chat, "started")
            /\ activityFeed' = AddActivityItem(activityFeed, "analysis_started")
       ELSE /\ chat' = AddChatMessage(chat, "error")
            /\ UNCHANGED activityFeed
    /\ UNCHANGED <<currentIntent, understandPending, submits, modalOpen,
                   execRequests, alerts, channelVars, voiceVars, loaderVars, transcriptVars, restVars>>

\* click on #close-intent-modal: hideIntentModal()
HideIntentModal ==
    /\ modalOpen
    /\ modalOpen' = FALSE
    /\ UNCHANGED <<chat, currentIntent, understandPending, submits, execRequests,
                   execPending, alerts, connVars, voiceVars, loaderVars, transcriptVars, restVars>>

\* refineRequest(): the modal is hidden and a prompt is appended
RefineRequest ==
    /\ modalOpen
    /\ modalOpen' = FALSE
    /\ chat' = AddChatMessage(chat, "refine")
    /\ UNCHANGED <<currentIntent, understandPending, submits, execRequests,
                   execPending, alerts, connVars, voiceVars, loaderVars, transcriptVars, restVars>>

\* clearConversation that only empties the chat
ClearConversationKeepsIntent ==
    /\ chat' = <<"greeting">>
    /\ UNCHANGED <<currentIntent, understandPending, submits, modalOpen, execRequests,
                   execPending, alerts, connVars, voiceVars, loaderVars, transcriptVars, restVars>>

\* clearConversation()
ClearConversation ==
    /\ chat' = <<"greeting">>
    /\ currentIntent' = NoIntent
    /\ UNCHANGED <<understandPending, submits, modalOpen, execRequests,
                   execPending, alerts, connVars, voiceVars, loaderVars, transcriptVars, restVars>>

\* ========================================================= voice transcripts
\* a transcript is a string, modelled as the sequence of its words and of the
\* single spaces between them; "Hey" and "Clear" are capitalised spellings
Lower(tok) ==
    CASE tok = "Hey" -> "hey"
      [] tok = "Clear" -> "clear"
      [] OTHER -> tok
\* String.prototype.toLowerCase
ToLowerCase(str) == [i \in 1..Len(str) |-> Lower(str[i])]
\* String.prototype.includes
Includes(str, sub) ==
    \E i \in 1..(Len(str) - Len(sub) + 1) : SubSeq(str, i, i + Len(sub) - 1) = sub
\* String.prototype.replace(sub, ''): the first occurrence is removed
ReplaceFirst(str, sub) ==
    IF ~Includes(str, sub)
    THEN str
    ELSE LET at == {i \in 1..(Len(str) - Len(sub) + 1) :
                       SubSeq(str, i, i + Len(sub) - 1) = sub}
             i == CHOOSE k \in at : \A j \in at : k <= j
         IN  SubSeq(str, 1, i - 1) \o SubSeq(str, i + Len(sub), Len(str))
\* String.prototype.trim
Trim(str) ==
    LET solid == {i \in 1..Len(str) : str[i] # " "}
    IN  IF solid = {} THEN <<>>
        ELSE SubSeq(str, CHOOSE a \in solid : \A j \in solid : a <= j,
                         CHOOSE b \in solid : \A j \in solid : j <= b)

\* settings.wakeWord as the constructor sets it
wakeWord == <<"hey", " ", "dashboard">>

\* the phrases of handleVoiceCommands, in the order of its tests
CommandTable ==
    << <<"stop", " ", "listening">>, <<"start", " ", "listening">>,
       <<"clear", " ", "conversation">>, <<"refresh", " ", "dashboard">>,
       <<"show", " ", "help">>, <<"speak", " ", "slower">>, <<"speak", " ", "faster">> >>

\* a table that lets the last phrase of the transcript's matches win
HandleVoiceCommandsLastMatch(transcript) ==
    LET lowerTranscript == ToLowerCase(transcript)
        hits == {k \in 1..Len(CommandTable) : Includes(lowerTranscript, CommandTable[k])}
    IN  IF hits = {} THEN 0 ELSE CHOOSE k \in hits : \A j \in hits : j <= k

\* handleVoiceCommands: the index of the first phrase the lowercased transcript
\* includes, 0 when it returns false
HandleVoiceCommands(transcript) ==
    LET lowerTranscript == ToLowerCase(transcript)
        hits == {k \in 1..Len(CommandTable) : Includes(lowerTranscript, CommandTable[k])}
    IN  IF hits = {} THEN 0 ELSE CHOOSE k \in hits : \A j \in hits : k <= j

\* a wake-word test that compares the transcript as it was spoken
GateAsSpoken(continuous, transcript) ==
    IF continuous /\ wakeWord # <<>>
    THEN IF ~Includes(transcript, wakeWord)
         THEN [pass |-> FALSE, text |-> transcript]
         ELSE [pass |-> TRUE, text |-> Trim(ReplaceFirst(ToLowerCase(transcript), wakeWord))]
    ELSE [pass |-> TRUE, text |-> transcript]

\* processFinalTranscript, the wake-word part: whether the transcript goes on,
\* and as what text
Gate(continuous, transcript) ==
    IF continuous /\ wakeWord # <<>>
    THEN IF ~Includes(ToLowerCase(transcript), wakeWord)
         THEN [pass |-> FALSE, text |-> transcript]
         ELSE [pass |-> TRUE, text |-> Trim(ReplaceFirst(ToLowerCase(transcript), wakeWord))]
    ELSE [pass |-> TRUE, text |-> transcript]

\* settings.voiceSpeed in tenths: the rates from 0.5 to 2.0
SpeechRates == 5..20

\* a rate lowered without the floor
SpeakSlowerUnclamped(speed) == speed - 2

\* Math.max(0.5, voiceSpeed - 0.2) and Math.min(2.0, voiceSpeed + 0.2), in tenths
SpeakSlower(speed) == IF speed - 2 < 5 THEN 5 ELSE speed - 2
SpeakFaster(speed) == IF speed + 2 > 20 THEN 20 ELSE speed + 2

\* recognition.onresult with a final transcript: handleSpeechResult,
\* processFinalTranscript, and the command or sendVoiceMessageToDashboard up to
\* its await
RecognitionOnResult(transcript) ==
    /\ voice.rec = "active"
    /\ heard' = [count |-> heard.count + 1, last |-> transcript]
    /\ LET g == Gate(voice.continuousListening, transcript)
           cmd == IF g.pass THEN HandleVoiceCommands(g.text) ELSE 0
           forwards == g.pass /\ cmd = 0
       IN  /\ voice' = CASE ~g.pass \/ forwards -> voice
                         [] cmd = 1 -> Speak(ExplicitStop(voice), "text")
                         [] cmd = 2 -> Speak(StartListening(ExplicitRequest(voice)), "text")
                         [] OTHER -> Speak(voice, "text")
           /\ chat' = CASE forwards -> AddChatMessage(chat, "user")
                        [] cmd = 3 -> <<"greeting">>
                        [] cmd = 5 -> AddChatMessage(chat, "help")
                        [] OTHER -> chat
           /\ currentIntent' = IF cmd = 3 THEN NoIntent ELSE currentIntent
           /\ trace' = IF cmd = 4 THEN Append(trace, <<"loadInitialData", "call">>) ELSE trace
           /\ refreshRuns' = IF cmd = 4 THEN Append(refreshRuns, StartedRun) ELSE refreshRuns
           /\ voiceSpeed' = CASE cmd = 6 -> SpeakSlower(voiceSpeed)
                              [] cmd = 7 -> SpeakFaster(voiceSpeed)
                              [] OTHER -> voiceSpeed
           /\ voiceRequests' = IF forwards
                               THEN Append(voiceRequests, [text |-> g.text, status |-> "pending"])
                               ELSE voiceRequests
           /\ persist' = IF cmd \in {6, 7}
                         THEN SaveSettings(persist, voiceSpeed', voice.continuousListening)
                         ELSE persist
    /\ UNCHANGED <<connVars, understandPending, submits, modalOpen, execRequests,
                   execPending, alerts, lw, load, appended>>

\* what comes back from /api/dashboard-ai/process-request: the fetch or the
\* JSON decoding fails, the body carries an error, or it is an answer
VoiceOutcomes == {"failed", "error", "answered"}

\* sendVoiceMessageToDashboard, from the response on
VoiceMessageResponse(r, out, autoSpeak) ==
    /\ r \in 1..Len(voiceRequests)
    /\ voiceRequests[r].status = "pending"
    /\ voiceRequests' = [voiceRequests EXCEPT ![r].status = out]
    /\ chat' = CASE out = "failed" -> chat
                 [] out = "error" -> AddChatMessage(chat, "error")
                 [] OTHER -> AddChatMessage(chat, "answer")
    /\ voice' = IF out = "answered" /\ autoSpeak THEN Speak(voice, "text") ELSE voice
    /\ UNCHANGED <<connVars, currentIntent, understandPending, submits, modalOpen,
                   execRequests, execPending, alerts, loaderVars, heard, voiceSpeed,
                   restVars>>

\* the final transcripts the recognizer delivers: each command phrase and a
\* sentence without one, a capitalised phrase and two phrases in one transcript;
\* some of them after the wake word, plain or capitalised; the wake word alone;
\* the wake word in the middle of a sentence and of a command phrase
FreeText == <<"find", " ", "housing">>
Bodies ==
    {CommandTable[k] : k \in 1..Len(CommandTable)}
        \cup {FreeText,
              <<"Clear", " ", "conversation">>,
              <<"stop", " ", "listening", " ", "clear", " ", "conversation">>}
Transcripts ==
    Bodies
        \cup {<<"hey", " ", "dashboard", " ">> \o b :
                 b \in {FreeText, <<"clear", " ", "conversation">>}}
        \cup {<<"Hey", " ", "dashboard", " ">> \o FreeText,
              wakeWord,
              <<"find", " ", "hey", " ", "dashboard", " ", "housing">>,
              <<"clear", " ", "hey", " ", "dashboard", " ", "conversation">>}

\* the recognizer delivers a final result
TranscriptArrives(transcript) ==
    /\ heard.count < MaxTranscripts
    /\ RecognitionOnResult(transcript)
    /\ voice'.utterances <= MaxUtterances
    /\ voice'.timers <= MaxVoiceTimers

\* a message typed into the chat while the voice interface is in use
TypedSubmit ==
    /\ submits < MaxTyped
    /\ SendMessage

\* ---- the startup of the voice interface and its settings
\* init(), up to its await of initAudioContext: initSpeechSynthesis has called
\* loadVoices and set onvoiceschanged; listed tells whether getVoices()
\* already returns the list
VoiceInitBegins(listed) ==
    /\ persist.pc = "constructed"
    /\ persist' = [LoadVoices(persist, listed) EXCEPT !.pc = "awaiting"]
    /\ UNCHANGED <<connVars, voiceVars, pipeVars, loaderVars, transcriptVars, refreshRuns>>

\* init(), after the await: setupEventListeners and loadSettings, which merges
\* the stored settings into this.settings and selects the stored voice when
\* this.voices holds it
VoiceInitResumes ==
    /\ persist.pc = "awaiting"
    /\ LET saved == persist.saved
       IN  /\ voiceSpeed' = IF saved.present THEN saved.voiceSpeed ELSE voiceSpeed
           /\ voice' = IF saved.present
                       THEN [voice EXCEPT !.continuousListening = saved.continuousListening]
                       ELSE voice
           /\ persist' = [persist EXCEPT
                            !.pc = "ready",
                            !.currentVoice = IF /\ saved.present
                                                /\ saved.currentVoiceName # 0
                                                /\ persist.voices
                                             THEN saved.currentVoiceName
                                             ELSE @]
    /\ UNCHANGED <<connVars, pipeVars, loaderVars, heard, voiceRequests, refreshRuns>>

\* synthesis.onvoiceschanged: loadVoices() with the list now there
OnVoicesChanged ==
    /\ persist.pc # "constructed"
    /\ persist' = LoadVoices(persist, TRUE)
    /\ UNCHANGED <<connVars, voiceVars, pipeVars, loaderVars, transcriptVars, refreshRuns>>

\* change on #voice-selector: a voice of this.voices is selected and saved
SelectVoice(name) ==
    /\ persist.pc = "ready"
    /\ persist.voices
    /\ persist' = SaveSettings([persist EXCEPT !.currentVoice = name], voiceSpeed,
                               voice.continuousListening)
    /\ UNCHANGED <<connVars, voiceVars, pipeVars, loaderVars, transcriptVars, refreshRuns>>

\* input on #voice-speed: settings.voiceSpeed = parseFloat(value), saved
SetVoiceSpeed(speed) ==
    /\ persist.pc = "ready"
    /\ voiceSpeed' = speed
    /\ persist' = SaveSettings(persist, speed, voice.continuousListening)
    /\ UNCHANGED <<connVars, voiceVars, pipeVars, loaderVars, heard, voiceRequests, refreshRuns>>

\* the recognizer delivers one of the two rate commands
SpeedCommandArrives(transcript) ==
    /\ heard.count < MaxSpeedCommands
    /\ RecognitionOnResult(transcript)

\* ================================================================= loaders
\* the earlier definition of loadWithRetry: its catch only logs to the console
LoadWithRetryWarnsNever(w, ok) == FALSE

\* the catch branch that appends the 'unavailable after n attempts' item
LoadWithRetryWarns(w, ok) == ~ok /\ w.attempt = w.maxRetries

\* a catch branch that waits the same delay after every failure
LoadWithRetrySettlesFlatDelay(w, ok) ==
    IF ok
    THEN [w EXCEPT !.at = "done"]
    ELSE IF w.attempt = w.maxRetries
         THEN [w EXCEPT !.at = "done", !.attempt = @ + 1,
                        !.warned = IF LoadWithRetryWarns(w, ok) THEN @ + 1 ELSE @]
         ELSE [w EXCEPT !.at = "wait", !.waits = Append(@, retryUnitDelay)]

\* the awaited loadFunction() settles: return on success; after a failure warn
\* and leave the loop on the last attempt, else wait 1000 * attempt
LoadWithRetrySettles(w, ok) ==
    IF ok
    THEN [w EXCEPT !.at = "done"]
    ELSE IF w.attempt = w.maxRetries
         THEN [w EXCEPT !.at = "done", !.attempt = @ + 1,
                        !.warned = IF LoadWithRetryWarns(w, ok) THEN @ + 1 ELSE @]
         ELSE [w EXCEPT !.at = "wait", !.waits = Append(@, retryUnitDelay * w.attempt)]

\* the timer of the catch branch fires: attempt++ and the next loadFunction()
LoadWithRetryResumes(w) ==
    [w EXCEPT !.attempt = @ + 1, !.at = "task", !.calls = @ + 1]

UnavailableItem(w) == "unavailable:" \o w.name
\* the feed after loadFunction() settled
LoadWithRetryFeed(feed, w, ok) ==
    IF LoadWithRetryWarns(w, ok) THEN AddActivityItem(feed, UnavailableItem(w)) ELSE feed

RetriedNames == {"Statistics", "Associations Data"}

\* ---- loadWithRetry on its own, called with any task and any maxRetries
CallLoadWithRetry(name, maxRetries) ==
    /\ load.pc = "idle"
    /\ lw.at = "done"
    /\ Count(trace, <<"loadWithRetry", "call">>) < MaxRetryCalls
    /\ lw' = LoadWithRetry(name, maxRetries)
    /\ trace' = trace \o <<<<"loadWithRetry", "call">>>>
                      \o (IF 1 <= maxRetries THEN <<<<name, "call">>>> ELSE <<>>)
    /\ UNCHANGED <<connVars, voiceVars, pipeVars, load, appended, transcriptVars, restVars>>

TaskSettles(ok) ==
    /\ load.pc = "idle"
    /\ lw.at = "task"
    /\ lw' = LoadWithRetrySettles(lw, ok)
    /\ activityFeed' = LoadWithRetryFeed(activityFeed, lw, ok)
    /\ trace' = Append(trace, <<lw.name, IF ok THEN "ok" ELSE "fail">>)
    /\ UNCHANGED <<channelVars, voiceVars, pipeVars, load, appended, transcriptVars, restVars>>

RetryTimerFires ==
    /\ lw.at = "wait"
    /\ lw' = LoadWithRetryResumes(lw)
    /\ trace' = Append(trace, <<lw.name, "call">>)
    /\ UNCHANGED <<connVars, voiceVars, pipeVars, load, appended, transcriptVars, restVars>>

\* ---- init(): health check, push connection, initial data load
\* initPc follows init(): "boot" (constructed), "health", "llm", "llmtest" (the
\* three probes awaited), "start" (checkSystemHealth has returned),
\* "connected" (connectWebSocket has run), "loading" (loadInitialData awaited),
\* "complete"; "failed" is the catch of init
\* feed items of the startup: "health_check", "health_passed", "component",
\* "health_failed", "health_unreachable", "llm_active", "llm_fallbacks",
\* "llm_none", "llm_unchecked", "llm_test_passed", "llm_test_failed",
\* "health_summary", "loading_data", "loaded:<name>", "not_available:<name>",
\* "unavailable:<name>", "limited", "complete"
AddActivityItems(feed, items) ==
    IF Len(items) = 0 THEN feed
    ELSE IF Len(items) = 1 THEN AddActivityItem(feed, items[1])
    ELSE IF Len(items) = 2 THEN AddActivityItem(AddActivityItem(feed, items[1]), items[2])
    ELSE AddActivityItem(AddActivityItem(AddActivityItem(feed, items[1]), items[2]), items[3])

\* init up to the await of checkSystemHealth's fetch('/api/health')
InitBegins ==
    /\ initPc = "boot"
    /\ initPc' = "health"
    /\ activityFeed' = AddActivityItem(activityFeed, "health_check")
    /\ UNCHANGED <<sockets, websocket, reconnectAttempts, reconnectTimers, frames,
                   disconnects, cycle, notConnVars>>

\* the answers of /api/health: the request or its body fails, a status other
\* than 'healthy', 'healthy' without a components object, 'healthy'
HealthOutcomes == {"failed", "unhealthy", "malformed", "healthy"}
\* the answers of /api/llm/status: failure, an active provider (with or without
\* fallbacks), none
LlmStatusOutcomes == {"failed", "active", "fallbacks", "none"}
\* the answers of /api/llm/test-connection
LlmTestOutcomes == {"failed", "passed", "notpassed"}

\* a health check whose failures are not caught: they reach the catch of init
HealthResponseUncaught(out) ==
    /\ initPc = "health"
    /\ initPc' = CASE out = "healthy" -> "llm"
                   [] out = "unhealthy" -> "start"
                   [] OTHER -> "failed"
    /\ activityFeed' = AddActivityItems(activityFeed,
          CASE out = "failed" -> <<"limited", "refresh">>
            [] out = "unhealthy" -> <<"health_failed">>
            [] out = "malformed" -> <<"health_passed", "limited", "refresh">>
            [] OTHER -> <<"health_passed", "component">>)
    /\ UNCHANGED <<sockets, websocket, reconnectAttempts, reconnectTimers, frames,
                   disconnects, cycle, notConnVars>>

\* checkSystemHealth from the response of /api/health to its next await (of
\* checkLLMStatus's fetch) or to its return
HealthResponse(out) ==
    /\ initPc = "health"
    /\ initPc' = IF out = "healthy" THEN "llm" ELSE "start"
    /\ activityFeed' = AddActivityItems(activityFeed,
          CASE out = "failed" -> <<"health_unreachable">>
            [] out = "unhealthy" -> <<"health_failed">>
            [] out = "malformed" -> <<"health_passed", "health_unreachable">>
            [] OTHER -> <<"health_passed", "component">>)
    /\ UNCHANGED <<sockets, websocket, reconnectAttempts, reconnectTimers, frames,
                   disconnects, cycle, notConnVars>>

\* checkLLMStatus from the response of /api/llm/status on; when it fails the
\* catch logs it and checkSystemHealth goes on to its summary
LlmStatusResponse(out) ==
    /\ initPc = "llm"
    /\ initPc' = IF out = "failed" THEN "start" ELSE "llmtest"
    /\ activityFeed' = AddActivityItems(activityFeed,
          CASE out = "failed" -> <<"llm_unchecked", "health_summary">>
            [] out = "active" -> <<"llm_active">>
            [] out = "fallbacks" -> <<"llm_active", "llm_fallbacks">>
            [] OTHER -> <<"llm_none">>)
    /\ UNCHANGED <<sockets, websocket, reconnectAttempts, reconnectTimers, frames,
                   disconnects, cycle, notConnVars>>

\* checkLLMStatus from the response of /api/llm/test-connection on, then the
\* summary of checkSystemHealth
LlmTestResponse(out) ==
    /\ initPc = "llmtest"
    /\ initPc' = "start"
    /\ activityFeed' = AddActivityItems(activityFeed,
          CASE out = "failed" -> <<"llm_unchecked", "health_summary">>
            [] out = "passed" -> <<"llm_test_passed", "health_summary">>
            [] OTHER -> <<"llm_test_failed", "health_summary">>)
    /\ UNCHANGED <<sockets, websocket, reconnectAttempts, reconnectTimers, frames,
                   disconnects, cycle, notConnVars>>

OptionalLoaders ==
    <<"Reports", "Reports Viewer", "ARC Returns", "Comprehensive Insights",
      "Market Intelligence">>
\* loadIndustryConfigs catches and logs its errors: as a loadWithRetry task it
\* always succeeds; the Statistics and Associations tasks throw
TaskSucceeds(name, httpOk) == httpOk \/ name = "Industry Configurations"
\* of the optional loaders only loadMarketIntelligence re-throws what it caught
Rethrows(name) == name = "Market Intelligence"

\* init after connectWebSocket(): the 'Loading dashboard data' item and
\* loadInitialData up to the first request
LoadDashboardData ==
    /\ initPc = "connected"
    /\ load.pc = "idle"
    /\ initPc' = "loading"
    /\ activityFeed' = AddActivityItem(activityFeed, "loading_data")
    /\ load' = [pc |-> "required", opt |-> 0]
    /\ lw' = LoadWithRetry("Industry Configurations", requiredRetries)
    /\ trace' = Append(trace, <<"Industry Configurations", "call">>)
    /\ UNCHANGED <<sockets, websocket, reconnectAttempts, reconnectTimers, frames,
                   disconnects, cycle, voiceVars, pipeVars, appended, transcriptVars, restVars>>

\* loadInitialData after a required step's loadWithRetry has returned:
\* loadSavedConfig and the Statistics step, the Associations step, or the first
\* optional loader
AfterRequired(name, w) ==
    CASE name = "Industry Configurations" ->
            [lw |-> LoadWithRetry("Statistics", requiredRetries),
             load |-> [pc |-> "required", opt |-> 0],
             calls |-> << <<"Saved Config", "call">>, <<"Statistics", "call">> >>]
      [] name = "Statistics" ->
            [lw |-> LoadWithRetry("Associations Data", requiredRetries),
             load |-> [pc |-> "required", opt |-> 0],
             calls |-> << <<"Associations Data", "call">> >>]
      [] OTHER ->
            [lw |-> w,
             load |-> [pc |-> "optional", opt |-> 1],
             calls |-> << <<OptionalLoaders[1], "call">> >>]

\* a required step that is left after its first failure
RequiredSettlesNoRetry(httpOk) ==
    /\ load.pc = "required"
    /\ lw.at = "task"
    /\ LET ok == TaskSucceeds(lw.name, httpOk)
           w == LoadWithRetrySettles(lw, ok)
           n == AfterRequired(lw.name, w)
       IN  /\ activityFeed' = LoadWithRetryFeed(activityFeed, lw, ok)
           /\ lw' = n.lw
           /\ load' = n.load
           /\ trace' = Append(trace, <<lw.name, IF httpOk THEN "ok" ELSE "fail">>) \o n.calls
    /\ UNCHANGED <<channelVars, voiceVars, pipeVars, appended, transcriptVars, restVars>>

\* the request of a required step settles inside loadWithRetry
RequiredSettles(httpOk) ==
    /\ load.pc = "required"
    /\ lw.at = "task"
    /\ LET ok == TaskSucceeds(lw.name, httpOk)
           w == LoadWithRetrySettles(lw, ok)
           n == AfterRequired(lw.name, w)
           settled == Append(trace, <<lw.name, IF httpOk THEN "ok" ELSE "fail">>)
       IN  /\ activityFeed' = LoadWithRetryFeed(activityFeed, lw, ok)
           /\ IF w.at = "done"
              THEN lw' = n.lw /\ load' = n.load /\ trace' = settled \o n.calls
              ELSE lw' = w /\ load' = load /\ trace' = settled
    /\ UNCHANGED <<channelVars, voiceVars, pipeVars, appended, transcriptVars, restVars>>

\* an optional loop without its try/catch, in a loadInitialData without one:
\* what a loader throws reaches the catch of init
OptionalSettlesUncaught(httpOk) ==
    /\ load.pc = "optional"
    /\ LET name == OptionalLoaders[load.opt]
           thrown == ~httpOk /\ Rethrows(name)
           settled == Append(trace, <<name, IF httpOk THEN "ok" ELSE "fail">>)
       IN  IF thrown
           THEN /\ load' = [pc |-> "done", opt |-> 0]
                /\ trace' = settled
                /\ activityFeed' = AddActivityItems(activityFeed, <<"limited", "refresh">>)
                /\ initPc' = "failed"
           ELSE IF load.opt < Len(OptionalLoaders)
           THEN /\ load' = [load EXCEPT !.opt = @ + 1]
                /\ trace' = Append(settled, <<OptionalLoaders[load.opt + 1], "call">>)
                /\ activityFeed' = AddActivityItem(activityFeed, "loaded:" \o name)
                /\ UNCHANGED initPc
           ELSE /\ load' = [pc |-> "done", opt |-> 0]
                /\ trace' = settled
                /\ activityFeed' = AddActivityItems(activityFeed, <<"loaded:" \o name, "complete">>)
                /\ initPc' = "complete"
    /\ UNCHANGED <<sockets, websocket, reconnectAttempts, reconnectTimers, frames,
                   disconnects, cycle, voiceVars, pipeVars, lw, appended, transcriptVars, restVars>>

\* the request of the optional loader being awaited settles: its item, then
\* the next loader, or the return of loadInitialData and the end of init
OptionalSettles(httpOk) ==
    /\ load.pc = "optional"
    /\ LET name == OptionalLoaders[load.opt]
           thrown == ~httpOk /\ Rethrows(name)
           item == IF thrown THEN "not_available:" \o name ELSE "loaded:" \o name
           settled == Append(trace, <<name, IF httpOk THEN "ok" ELSE "fail">>)
       IN  IF load.opt < Len(OptionalLoaders)
           THEN /\ load' = [load EXCEPT !.opt = @ + 1]
                /\ trace' = Append(settled, <<OptionalLoaders[load.opt + 1], "call">>)
                /\ activityFeed' = AddActivityItem(activityFeed, item)
                /\ UNCHANGED initPc
           ELSE /\ load' = [pc |-> "done", opt |-> 0]
                /\ trace' = settled
                /\ activityFeed' = AddActivityItems(activityFeed, <<item, "complete">>)
                /\ initPc' = "complete"
    /\ UNCHANGED <<sockets, websocket, reconnectAttempts, reconnectTimers, frames,
                   disconnects, cycle, voiceVars, pipeVars, lw, appended, transcriptVars, restVars>>

\* ---- a run of loadInitialData started by a refresh: the same required steps
\* as the startup's run, on its own loadWithRetry frames; its caller does not
\* await it.  The run is followed up to the request of its first optional loader
\* a run whose loadInitialData has not returned
InProgress(ld) == ld.pc \in {"required", "optional"}

\* the run after the request of its required step has settled
RunRequiredSettles(r, httpOk) ==
    LET w == LoadWithRetrySettles(r.lw, TaskSucceeds(r.lw.name, httpOk))
        n == AfterRequired(r.lw.name, w)
    IN  IF w.at = "done" THEN [lw |-> n.lw, load |-> n.load] ELSE [r EXCEPT !.lw = w]

RefreshRequiredSettles(i, httpOk) ==
    /\ i \in 1..Len(refreshRuns)
    /\ refreshRuns[i].load.pc = "required"
    /\ refreshRuns[i].lw.at = "task"
    /\ refreshRuns' = [refreshRuns EXCEPT ![i] = RunRequiredSettles(@, httpOk)]
    /\ activityFeed' = LoadWithRetryFeed(activityFeed, refreshRuns[i].lw,
                                         TaskSucceeds(refreshRuns[i].lw.name, httpOk))
    /\ UNCHANGED <<channelVars, voiceVars, pipeVars, loaderVars, transcriptVars, persist>>

RefreshRetryTimerFires(i) ==
    /\ i \in 1..Len(refreshRuns)
    /\ refreshRuns[i].lw.at = "wait"
    /\ refreshRuns' = [refreshRuns EXCEPT ![i].lw = LoadWithRetryResumes(@)]
    /\ UNCHANGED <<connVars, voiceVars, pipeVars, loaderVars, transcriptVars, persist>>

\* a frame whose handler refreshes the dashboard's data
RefreshFrameArrives(s, kind) ==
    /\ Len(frames) < MaxRefreshes
    /\ WebsocketOnMessage(s, kind)

\* ---- the activity log on its own: any caller appends an item; the item
\* carries the number of the call that appended it
LogItem ==
    /\ appended < MaxAppended
    /\ appended' = appended + 1
    /\ activityFeed' = AddActivityItem(activityFeed, appended + 1)
    /\ UNCHANGED <<channelVars, voiceVars, pipeVars, lw, load, trace, transcriptVars, restVars>>

\* the state after new Dashboard() and new VoiceInterface(), with init() at the
\* position pc, the speech rate speed and the voice interface's startup at p
InitStored(pc, speed, p) ==
    /\ initPc = pc
    /\ sockets = <<>>
    /\ websocket = 0
    /\ reconnectAttempts = 0
    /\ reconnectTimers = <<>>
    /\ activityFeed = <<>>
    /\ frames = <<>>
    /\ disconnects = 0
    /\ cycle = <<>>
    /\ voice = [isListening |-> FALSE, isSpeaking |-> FALSE,
                continuousListening |-> FALSE,
                rec |-> "inactive", synth |-> "none", stale |-> 0,
                timers |-> 0, utterances |-> 0, carried |-> FALSE,
                startRefused |-> FALSE, completed |-> 0, stopped |-> FALSE]
    /\ chat = <<"greeting">>
    /\ currentIntent = NoIntent
    /\ understandPending = {}
    /\ submits = 0
    /\ modalOpen = FALSE
    /\ execRequests = <<>>
    /\ execPending = 0
    /\ alerts = 0
    /\ lw = IdleLoad
    /\ load = [pc |-> "idle", opt |-> 0]
    /\ trace = <<>>
    /\ appended = 0
    /\ heard = [count |-> 0, last |-> <<>>]
    /\ voiceRequests = <<>>
    /\ voiceSpeed = speed
    /\ persist = p
    /\ refreshRuns = <<>>

\* the voice interface after its startup in a browser that had nothing stored
\* and had its voices listed
StartedFresh ==
    [pc |-> "ready", voices |-> TRUE, currentVoice |-> DefaultVoice, saved |-> NoSaved]

\* the state with the speech rate that loadSettings restored
InitWith(pc, speed) == InitStored(pc, speed, StartedFresh)

\* the state with the constructor's speech rate 1.0
InitAt(pc) == InitWith(pc, 10)

\* the push channel, the voice machine and the pipeline are followed from the
\* point where init() calls connectWebSocket
Init == InitAt("start")
\* the startup is followed from the construction
InitBoot == InitAt("boot")
\* what an earlier session can have left in localStorage: nothing, or a rate,
\* the continuous-listening flag and the name of a voice (0: none was selected)
SavedStates ==
    {NoSaved} \cup
    [present : {TRUE}, voiceSpeed : {8, 14}, continuousListening : BOOLEAN,
     currentVoiceName : 0..NumVoices]
\* the voice interface's startup is followed from its construction
InitPrefs ==
    \E saved \in SavedStates :
        InitStored("start", 10,
                   [pc |-> "constructed", voices |-> FALSE, currentVoice |-> 0,
                    saved |-> saved])
\* the rate commands are followed from every stored speech rate
InitSpeed == \E speed \in SpeechRates : InitWith("start", speed)

NextConn ==
    \/ InitConnect
    \/ \E i \in 1..Len(reconnectTimers) : ReconnectTimerFires(i)
    \/ \E s \in 1..Len(sockets) : WebsocketOnOpen(s)
    \/ \E s \in 1..Len(sockets), kind \in FrameKinds : FrameArrives(s, kind)
    \/ \E s \in 1..Len(sockets) : WebsocketOnError(s)
    \/ \E s \in 1..Len(sockets) : WebsocketOnClose(s)
    \/ Disconnect

SpecConn == Init /\ [][NextConn]_vars

\* the push channel seen from its frames: a longer run of frames over fewer
\* connections
PushFrameArrives(s, kind) ==
    /\ Len(frames) < MaxPushFrames
    /\ WebsocketOnMessage(s, kind)

PushReconnectTimerFires(i) ==
    /\ Len(sockets) < MaxPushSockets
    /\ ReconnectTimerFires(i)

NextPush ==
    \/ InitConnect
    \/ \E i \in 1..Len(reconnectTimers) : PushReconnectTimerFires(i)
    \/ \E s \in 1..Len(sockets) : WebsocketOnOpen(s)
    \/ \E s \in 1..Len(sockets), kind \in FrameKinds \cup ExecutionFrameKinds :
          PushFrameArrives(s, kind)
    \/ \E s \in 1..Len(sockets) : WebsocketOnError(s)
    \/ \E s \in 1..Len(sockets) : WebsocketOnClose(s)

SpecPush == Init /\ [][NextPush]_vars

NextVoice ==
    \/ UserToggleListening
    \/ UserStopListening
    \/ UserToggleContinuous
    \/ UserEscape
    \/ \E text \in SpeakTexts : CallSpeak(text)
    \/ StartTimerFires
    \/ RecStartEvent
    \/ RecErrorEvent
    \/ RecEndEvent
    \/ UtterStartEvent
    \/ UtterEndEvent
    \/ UtterErrorEvent
    \/ \E how \in {"end", "error", "none"} : StaleUtterEvent(how)

SpecVoice == Init /\ [][NextVoice]_vars

\* the voice machine with its timers: a setTimeout callback that is due is run
SpecVoiceTimed == Init /\ [][NextVoice]_vars /\ WF_vars(StartTimerFires)

NextPipe ==
    \/ SendMessage
    \/ \E req \in understandPending, out \in UnderstandOutcomes, questions \in BOOLEAN :
          SendMessageResponse(req, out, questions)
    \/ ExecuteIntent
    \/ \E kind \in {"accepted", "error", "failed"} : ExecuteIntentResponse(kind)
    \/ HideIntentModal
    \/ RefineRequest
    \/ ClearConversation

SpecPipe == Init /\ [][NextPipe]_vars

\* the voice interface seen from its transcripts: one-shot and continuous
\* listening, the commands and the requests they forward, next to typed
\* submits; the utterances stay with the synthesizer and the sessions are not
\* followed to their end
NextTranscript ==
    \/ UserToggleListening
    \/ UserToggleContinuous
    \/ RecStartEvent
    \/ TypedSubmit
    \/ \E transcript \in Transcripts : TranscriptArrives(transcript)
    \/ \E r \in 1..Len(voiceRequests), out \in VoiceOutcomes, autoSpeak \in BOOLEAN :
          VoiceMessageResponse(r, out, autoSpeak)

SpecTranscript == Init /\ [][NextTranscript]_vars

\* the voice interface's startup and the changes of its settings
NextPrefs ==
    \/ \E listed \in BOOLEAN : VoiceInitBegins(listed)
    \/ VoiceInitResumes
    \/ OnVoicesChanged
    \/ \E name \in 1..NumVoices : SelectVoice(name)
    \/ \E speed \in {8, 10, 14} : SetVoiceSpeed(speed)
    \/ UserToggleContinuous

SpecPrefs == InitPrefs /\ [][NextPrefs]_vars

\* the speech rate under the two rate commands
NextSpeed ==
    \/ UserToggleListening
    \/ RecStartEvent
    \/ \E transcript \in {CommandTable[6], CommandTable[7]} : SpeedCommandArrives(transcript)

SpecSpeed == InitSpeed /\ [][NextSpeed]_vars

NextRetry ==
    \/ \E name \in RetriedNames, maxRetries \in 0..MaxRetries :
          CallLoadWithRetry(name, maxRetries)
    \/ \E ok \in BOOLEAN : TaskSettles(ok)
    \/ RetryTimerFires

SpecRetry == Init /\ [][NextRetry]_vars

NextLoad ==
    \/ InitBegins
    \/ \E out \in HealthOutcomes : HealthResponse(out)
    \/ \E out \in LlmStatusOutcomes : LlmStatusResponse(out)
    \/ \E out \in LlmTestOutcomes : LlmTestResponse(out)
    \/ InitConnect
    \/ LoadDashboardData
    \/ \E httpOk \in BOOLEAN : RequiredSettles(httpOk)
    \/ RetryTimerFires
    \/ \E httpOk \in BOOLEAN : OptionalSettles(httpOk)

SpecLoad == InitBoot /\ [][NextLoad]_vars

\* the startup's run and the refresh runs, each up to its first optional loader
NextRefresh ==
    \/ InitConnect
    \/ \E s \in 1..Len(sockets) : WebsocketOnOpen(s)
    \/ LoadDashboardData
    \/ \E httpOk \in BOOLEAN : RequiredSettles(httpOk)
    \/ RetryTimerFires
    \/ \E s \in 1..Len(sockets), kind \in RefreshFrameKinds : RefreshFrameArrives(s, kind)
    \/ \E i \in 1..Len(refreshRuns), httpOk \in BOOLEAN : RefreshRequiredSettles(i, httpOk)
    \/ \E i \in 1..Len(refreshRuns) : RefreshRetryTimerFires(i)

SpecRefresh == Init /\ [][NextRefresh]_vars

NextFeed == LogItem

SpecFeed == Init /\ [][NextFeed]_vars

\* ------------------------------------------------- push channel: properties
Live(s) == sockets[s] \in {"connecting", "open", "closing", "errored"}
OpenCount == Cardinality({s \in 1..Len(sockets) : sockets[s] = "open"})
TerminalCount == Count(activityFeed, "terminal")

\* steps of the push channel, as the claims name them
SomeSocketOpens ==
    \E s \in 1..Len(sockets) : sockets[s] # "open" /\ sockets'[s] = "open"
SomeSocketCloses ==
    \E s \in 1..Len(sockets) : sockets[s] # "closed" /\ sockets'[s] = "closed"
SocketCreated == Len(sockets') > Len(sockets)
ReconnectScheduled == Len(reconnectTimers') > Len(reconnectTimers)
ReconnectAttempted == Len(reconnectTimers') < Len(reconnectTimers)
ParseError == frames' = Append(frames, "malformed")
\* the feed after the step is the feed before it with exactly n items put on top
AppendedExactly(n) ==
    /\ Len(activityFeed') = Min(Len(activityFeed) + n, ActivityCap)
    /\ \A i \in (n + 1)..Len(activityFeed') : activityFeed'[i] = activityFeed[i - n]

\* the reconnect chain has ended: startup has connected, every socket created is
\* closed and no timer is pending
ChainEnded ==
    /\ initPc = "connected"
    /\ reconnectTimers = <<>>
    /\ \A s \in 1..Len(sockets) : sockets[s] = "closed"

C6_TerminalOnce ==
    /\ [](TerminalCount <= 1 /\ (TerminalCount = 1 => reconnectTimers = <<>>))
    /\ [][(SomeSocketCloses /\ Len(cycle) = 5)
            => (/\ TerminalCount' = TerminalCount + 1
                /\ activityFeed'[1] = "terminal"
                /\ reconnectTimers' = reconnectTimers
                /\ ~SocketCreated)]_vars

\* the terminal item has been logged after the fifth failed attempt
C6_Witness ==
    /\ TerminalCount = 1
    /\ reconnectAttempts = 5
    /\ Len(activityFeed) >= 2 /\ activityFeed[1] = "terminal" /\ activityFeed[2] = "lost"

\* C7: the attempt counter stays in 0..5; it changes only by +1, exactly when a
\* reconnect is scheduled, or to 0, and every open resets it to 0.
C7_CounterRange ==
    /\ [](reconnectAttempts \in 0..5)
    /\ [][/\ ReconnectScheduled => reconnectAttempts' = reconnectAttempts + 1
          /\ SomeSocketOpens => reconnectAttempts' = 0
          /\ reconnectAttempts' # reconnectAttempts
                => (ReconnectScheduled \/ SomeSocketOpens)]_vars

\* a reconnect succeeded in opening after failed attempts, so the counter went
\* up and was reset
C7_Witness ==
    /\ Len(sockets) >= 3
    /\ sockets[Len(sockets)] = "open"
    /\ reconnectAttempts = 0
    /\ Count(activityFeed, "lost") >= 2

\* C8: at most one socket is open at any time, and no socket is created while
\* another one is open.
C8_SingleConnection ==
    /\ [](OpenCount <= 1)
    /\ [][SocketCreated => OpenCount = 0]_vars

\* a second connection is open after the first one was lost
C8_Witness ==
    /\ Len(sockets) >= 2
    /\ sockets[1] = "closed"
    /\ OpenCount = 1
    /\ Count(activityFeed, "established") = 2

\* C9 (as claimed): the close of a socket that disconnect() closed schedules no
\* reconnect.
C9_DisconnectNoReconnect ==
    [][\A s \in 1..Len(sockets) :
          (sockets[s] = "closing" /\ sockets'[s] = "closed")
             => reconnectTimers' = reconnectTimers]_vars

\* C10 (as claimed): a socket open, a socket close, a reconnect attempt and a
\* message parse error each append exactly one item to the activity feed.
C10_OneItemPerTransition ==
    [][(SomeSocketOpens \/ SomeSocketCloses \/ ReconnectAttempted \/ ParseError)
          => AppendedExactly(1)]_vars

\* --------------------------------------------------- voice machine: properties
\* C1 (as claimed): listening and speaking are never both active.
C1_ListenSpeakExclusive == ~(voice.isListening /\ voice.isSpeaking)

\* C2 (as claimed): a speak(text) that hands an utterance to the synthesizer
\* while a recognition session is active leaves that session stopped, so the
\* utterance cannot start while recognition is still active.
C2_SpeakStopsRecognition ==
    [][(voice'.utterances = voice.utterances + 1 /\ voice.rec = "active")
          => ~RecActive(voice')]_vars

\* C3 (as claimed): an utterance that was in flight when startListening started
\* a recognition session is never being spoken while that session is active.
C3_StartListeningCancelsSpeech ==
    ~(voice.carried /\ voice.synth = "speaking" /\ voice.rec = "active")

\* ------------------------------------------------------- pipeline: properties
\* a submit made after the current Intent was stored is awaiting its response
Superseded == \E req \in understandPending : req > currentIntent.text

\* C4 (as claimed): while a newer submit is awaiting its understanding response,
\* a call of executeIntent sends no execution request (it shows an error instead).
C4_StaleIntentRejected ==
    [][Superseded => execRequests' = execRequests]_vars

\* ---------------------------------------------------------------------- C11
\* C11: a frame that fails to parse is dropped.  The step that receives it
\* leaves the connection (every socket, the current handle, the reconnect
\* counter and timers), the chat history, the current Intent and the
\* confirmation surface as they were, and the frames of a connection that are
\* well formed are all dispatched, whatever malformed frames came before them:
\* every task_started frame received has put its item in the feed.
C11_ParseErrorDropped ==
    /\ [](Count(activityFeed, "task_started") = Count(frames, "task_started"))
    /\ [][ParseError =>
             UNCHANGED <<sockets, websocket, reconnectAttempts, reconnectTimers,
                         chat, currentIntent, modalOpen>>]_vars

\* a malformed frame, then a well-formed one dispatched on the same connection
C11_Witness ==
    /\ Len(sockets) = 1
    /\ sockets[1] = "open"
    /\ frames = <<"malformed", "task_started">>
    /\ Count(activityFeed, "task_started") = 1
\* ------------------------------------------------------ loaders: properties
\* the part of the trace that belongs to the loadWithRetry call in progress (or
\* the last one): the events after the last "loadWithRetry" marker
CallStart ==
    LET marks == {i \in 1..Len(trace) : trace[i] = <<"loadWithRetry", "call">>}
    IN  IF marks = {} THEN 0 ELSE CHOOSE i \in marks : \A j \in marks : j <= i
ThisCall == SubSeq(trace, CallStart + 1, Len(trace))
Invocations == Count(ThisCall, <<lw.name, "call">>)
Failures == Count(ThisCall, <<lw.name, "fail">>)
Successes == Count(ThisCall, <<lw.name, "ok">>)
\* the call has seen maxRetries failures and no success
Exhausted == Successes = 0 /\ Failures = lw.maxRetries

C13_OneWarning ==
    /\ [](lw.at \in {"task", "wait", "done"})
    /\ [](lw.at = "done" => Successes = 1 \/ Exhausted)
    /\ [][IF lw.at = "task" /\ Exhausted'
          THEN /\ AppendedExactly(1)
               /\ activityFeed'[1] = "unavailable:" \o lw.name
               /\ lw'.at = "done"
          ELSE activityFeed' = activityFeed]_vars

\* one call that failed on each of its two attempts, one that succeeded at once
C13_Witness ==
    /\ lw.at = "done"
    /\ trace = << <<"loadWithRetry", "call">>,
                  <<"Statistics", "call">>, <<"Statistics", "fail">>,
                  <<"Statistics", "call">>, <<"Statistics", "fail">>,
                  <<"loadWithRetry", "call">>,
                  <<"Associations Data", "call">>, <<"Associations Data", "ok">> >>
    /\ activityFeed = <<"unavailable:Statistics">>
\* ---------------------------------------------------------------------- C14
\* the place of a step in loadInitialData
StepRank(name) ==
    CASE name = "Industry Configurations" -> 1
      [] name = "Saved Config" -> 2
      [] name = "Statistics" -> 3
      [] name = "Associations Data" -> 4
      [] OTHER -> 5
RequiredNames == {"Industry Configurations"} \cup RetriedNames

\* C14: in a run of loadInitialData the steps come in their order (industry
\* configuration, saved configuration, statistics, associations, optional
\* loaders): no event of a step follows an event of a later one.  When the
\* first request of a step is issued, every required step before it has run,
\* has no request in flight, and, for the steps whose task reports failure, has
\* either succeeded or failed requiredRetries times.
C14_StepsOrdered ==
    /\ \A i, j \in 1..Len(trace) :
          i < j => StepRank(trace[i][1]) <= StepRank(trace[j][1])
    /\ \A j \in 1..Len(trace) : \A n \in RequiredNames :
          (trace[j][2] = "call" /\ StepRank(n) < StepRank(trace[j][1])) =>
             LET before == SubSeq(trace, 1, j - 1)
                 calls == Count(before, <<n, "call">>)
                 oks == Count(before, <<n, "ok">>)
                 fails == Count(before, <<n, "fail">>)
             IN  /\ calls >= 1
                 /\ calls = oks + fails
                 /\ n \in RetriedNames => (oks = 1 \/ fails = requiredRetries)

\* the optional loaders are under way after a failed industry request, a
\* Statistics step that succeeded on its retry and an Associations step that
\* exhausted its retries
C14_Witness ==
    /\ load.pc = "optional"
    /\ Count(trace, <<"Industry Configurations", "fail">>) = 1
    /\ Count(trace, <<"Statistics", "fail">>) = 1
    /\ Count(trace, <<"Statistics", "ok">>) = 1
    /\ Count(trace, <<"Associations Data", "fail">>) = 2
\* ---------------------------------------------------------------------- C15
Attempted(k) == Count(trace, <<OptionalLoaders[k], "call">>) >= 1
RequestFailed(k) == Count(trace, <<OptionalLoaders[k], "fail">>) >= 1

\* C15: once the request of an optional loader has failed, the startup is
\* never in its failure branch: either the loop is awaiting a later loader,
\* with every loader up to that one attempted, or loadInitialData has returned
\* with all the later loaders attempted and init has put its 'initialization
\* complete' item on top of the feed.
C15_OptionalFailureTolerated ==
    \A k \in 1..Len(OptionalLoaders) :
       RequestFailed(k) =>
          \/ /\ load.pc = "optional"
             /\ initPc = "loading"
             /\ load.opt > k
             /\ \A j \in (k + 1)..load.opt : Attempted(j)
          \/ /\ load.pc = "done"
             /\ initPc = "complete"
             /\ activityFeed[1] = "complete"
             /\ \A j \in (k + 1)..Len(OptionalLoaders) : Attempted(j)

\* the startup has completed although the Reports request and the Market
\* Intelligence request both failed
C15_Witness ==
    /\ initPc = "complete"
    /\ RequestFailed(1)
    /\ RequestFailed(5)
    /\ Count(trace, <<"ARC Returns", "ok">>) = 1
    /\ activityFeed[1] = "complete"
\* ---------------------------------------------------------------------- C16
\* the optional loop has passed loader k: its item is in the feed
Recorded(k) == load.pc = "done" \/ (load.pc = "optional" /\ load.opt > k)

\* C16: an optional loader whose request failed is recorded in the feed as not
\* available and never as loaded.
C16_FailedEnrichmentUnavailable ==
    \A k \in 1..Len(OptionalLoaders) :
       /\ RequestFailed(k) /\ Recorded(k) =>
             Count(activityFeed, "not_available:" \o OptionalLoaders[k]) = 1
       /\ RequestFailed(k) =>
             Count(activityFeed, "loaded:" \o OptionalLoaders[k]) = 0
\* ---------------------------------------------------------------------- C17
\* connectWebSocket has run once: it created a socket or logged that it could not
ConnectHasRun == Len(sockets) + Count(activityFeed, "createFailed") = 1

\* C17: no answer of the health probe, of the provider status probe or of the
\* connectivity test takes init to its failure branch.  While a probe is
\* awaited nothing else has started; when checkSystemHealth has returned init
\* can call connectWebSocket, whatever the probes answered; once it has, the
\* data load can start, and the data load only ever runs after the connection
\* was set up.
C17_StartupContinues ==
    /\ initPc \in {"boot", "health", "llm", "llmtest", "start", "connected",
                   "loading", "complete"}
    /\ initPc \in {"boot", "health", "llm", "llmtest", "start"} =>
          Len(sockets) = 0 /\ load.pc = "idle"
    /\ initPc = "start" => ENABLED InitConnect
    /\ initPc = "connected" => ConnectHasRun /\ ENABLED LoadDashboardData
    /\ initPc \in {"loading", "complete"} => ConnectHasRun /\ load.pc # "idle"
    /\ load.pc # "idle" => initPc \in {"loading", "complete"}

\* the data load is running, behind an open socket handle, after a health
\* answer without components and so without any provider probe
C17_Witness ==
    /\ initPc = "loading"
    /\ load.pc = "required"
    /\ Len(sockets) = 1
    /\ Count(activityFeed, "health_passed") = 1
    /\ Count(activityFeed, "health_unreachable") = 1
\* ---------------------------------------------------------------------- C18
\* C18: after n appends the log holds min(n, 50) items, and they are the last
\* min(n, 50) appended, newest first: the i-th entry from the top is the item
\* of append number n - i + 1.  So the log never holds more than 50 entries and
\* an append to a full log drops the oldest entry and nothing else.
C18_NewestFifty ==
    /\ Len(activityFeed) = Min(appended, 50)
    /\ \A i \in 1..Len(activityFeed) : activityFeed[i] = appended - i + 1

\* a full log to which more items were appended: items 2 to 51 are left
C18_Witness ==
    /\ appended = 51
    /\ Len(activityFeed) = 50
    /\ activityFeed[1] = 51
    /\ activityFeed[50] = 2
\* ---------------------------------------------------------------------- C19
\* the step in which an understanding result (not an error) is handled
UnderstandingArrives ==
    /\ understandPending' # understandPending
    /\ understandPending' \subseteq understandPending
    /\ Len(chat') > Len(chat)
    /\ chat'[Len(chat) + 1] = "understood"

\* C19: the step that handles an understanding result shows the confirmation
\* surface when the confidence is above 0.7 and leaves the surface as it was
\* otherwise; with the confidence in hundredths, 71 shows it and 70 does not.
C19_ConfidenceThreshold ==
    [][UnderstandingArrives =>
          /\ currentIntent'.confidence > 70 => modalOpen'
          /\ currentIntent'.confidence <= 70 => modalOpen' = modalOpen
          /\ currentIntent'.confidence = 71 => modalOpen'
          /\ currentIntent'.confidence = 70 /\ ~modalOpen => ~modalOpen']_vars

\* a result at 0.70 with questions was answered by a clarification and the
\* surface stayed closed; the next result, at 0.71, has opened it
C19_Witness ==
    /\ submits = 2
    /\ understandPending = {}
    /\ chat = <<"greeting", "user", "understood", "clarify", "user", "understood">>
    /\ currentIntent = [text |-> 2, confidence |-> 71]
    /\ modalOpen

\* ---------------------------------------------------------------------- C20
\* C20: executeIntent with no current Intent shows the alert and does nothing
\* else: no request is sent while there is no Intent, and the step leaves the
\* chat, the Intent, the confirmation surface and the pending requests as
\* they were.
C20_ExecuteWithoutIntent ==
    /\ [][currentIntent = NoIntent => execRequests' = execRequests]_vars
    /\ [][currentIntent = NoIntent /\ ExecuteIntent =>
             /\ alerts' = alerts + 1
             /\ UNCHANGED <<chat, currentIntent, modalOpen, understandPending,
                            submits, execRequests, execPending>>]_vars

\* the alert has been shown once and nothing else has happened
C20_Witness ==
    /\ alerts = 1
    /\ currentIntent = NoIntent
    /\ execRequests = <<>>
    /\ chat = <<"greeting">>
    /\ ~modalOpen
\* ---------------------------------------------------------------------- C21
\* the step of an accepted executeIntent: its 'Starting analysis' message is
\* appended to the chat
ConfirmAccepted ==
    /\ Len(chat') = Len(chat) + 1
    /\ chat'[Len(chat')] = "starting"

RefineStep == chat' = Append(chat, "refine")

\* C22: refineRequest leaves the pipeline without a current Intent.
C22_RefineDiscardsIntent ==
    [][RefineStep => currentIntent' = NoIntent]_vars

\* ---------------------------------------------------------------------- C23
\* C23: clearConversation can be called in every state of the pipeline, and
\* it leaves the chat holding the canned greeting alone and no current Intent.
C23_ResetToGreeting ==
    /\ [](ENABLED ClearConversation)
    /\ [][ClearConversation => chat' = <<"greeting">> /\ currentIntent' = NoIntent]_vars

\* the conversation was cleared after an Intent had been executed and while a
\* later message was waiting for its understanding response
C23_Witness ==
    /\ chat = <<"greeting">>
    /\ currentIntent = NoIntent
    /\ Len(execRequests) = 1
    /\ understandPending = {2}
\* ---------------------------------------------------------------------- C24
\* C24: the step that delivers an execution frame appends exactly one message
\* to the chat: a progress message for intent_execution_started, a success
\* message for intent_execution_completed, an error message for
\* intent_execution_failed.  The completion also calls the reports loader, the
\* reports viewer loader and the initial data load; the other two call no
\* loader.
C24_ExecutionEvents ==
    [][/\ frames' = Append(frames, "intent_execution_started") =>
             chat' = Append(chat, "pipeline_started") /\ trace' = trace
       /\ frames' = Append(frames, "intent_execution_completed") =>
             /\ chat' = Append(chat, "completed")
             /\ trace' = trace \o << <<"Reports", "call">>, <<"Reports Viewer", "call">>,
                                     <<"loadInitialData", "call">> >>
       /\ frames' = Append(frames, "intent_execution_failed") =>
             chat' = Append(chat, "error") /\ trace' = trace]_vars

\* the three events of one execution that failed after a first completion
C24_Witness ==
    /\ frames = <<"intent_execution_started", "intent_execution_completed",
                  "intent_execution_failed">>
    /\ chat = <<"greeting", "pipeline_started", "completed", "error">>
    /\ Len(trace) = 3
\* ---------------------------------------------------------------------- C25
\* the step in which the request of a forwarded transcript fails: the fetch
\* throws, or the response carries an error
VoiceRequestFails ==
    \E r \in 1..Len(voiceRequests) :
        /\ voiceRequests[r].status = "pending"
        /\ voiceRequests'[r].status \in {"failed", "error"}

\* C25: the step in which the request of a forwarded transcript fails appends
\* exactly one message tagged error to the chat.
C25_FailureBecomesErrorMessage ==
    [][VoiceRequestFails => chat' = Append(chat, "error")]_vars
\* ---------------------------------------------------------------------- C26
\* C26: recognition.start() is never invoked on a session that has been started
\* and has not ended.
C26_NoStartOnOutstandingSession == ~voice.startRefused
\* ---------------------------------------------------------------------- C27
\* the step in which the recognizer delivers a final transcript
HeardStep == heard'.count = heard.count + 1

\* C27: in continuous listening with the wake word "hey dashboard", a final
\* transcript that does not contain the wake word in any capitalisation changes
\* nothing: no command runs, the chat and the requests stay as they are.  One
\* that starts with the wake word, capitalised or not, is processed as the rest:
\* "hey dashboard find housing" is forwarded as "find housing", and "hey
\* dashboard clear conversation" runs the command.
C27_WakeWordGating ==
    [][HeardStep /\ voice.continuousListening =>
          /\ ~Includes(ToLowerCase(heard'.last), <<"hey", " ", "dashboard">>) =>
                UNCHANGED <<voice, chat, voiceRequests, voiceSpeed, currentIntent, trace>>
          /\ heard'.last \in {<<"hey", " ", "dashboard", " ", "find", " ", "housing">>,
                              <<"Hey", " ", "dashboard", " ", "find", " ", "housing">>} =>
                /\ voiceRequests' = Append(voiceRequests,
                                           [text |-> <<"find", " ", "housing">>,
                                            status |-> "pending"])
                /\ chat' = Append(chat, "user")
          /\ heard'.last = <<"hey", " ", "dashboard", " ", "clear", " ", "conversation">> =>
                chat' = <<"greeting">> /\ voiceRequests' = voiceRequests]_vars

\* in continuous listening, "Hey dashboard find housing" was heard and its
\* request is out as "find housing"
C27_Witness ==
    /\ voice.continuousListening
    /\ heard.last = <<"Hey", " ", "dashboard", " ", "find", " ", "housing">>
    /\ voiceRequests = << [text |-> <<"find", " ", "housing">>, status |-> "pending"] >>
    /\ chat = <<"greeting", "user">>

\* in continuous listening, "find housing" was heard without the wake word and
\* left the chat and the requests empty
C27_Dropped ==
    /\ voice.continuousListening
    /\ heard.last = <<"find", " ", "housing">>
    /\ voiceRequests = <<>>
    /\ chat = <<"greeting">>
\* ---------------------------------------------------------------------- C28
\* the transcript contains the k-th phrase of the table, in any capitalisation
ContainsPhrase(transcript, k) == Includes(ToLowerCase(transcript), CommandTable[k])
\* ... and none of the phrases tested before it
FirstPhraseIs(transcript, k) ==
    /\ ContainsPhrase(transcript, k)
    /\ \A j \in 1..(k - 1) : ~ContainsPhrase(transcript, j)
\* the wake-word test lets the transcript through
PassesGate(transcript) ==
    voice.continuousListening => Includes(ToLowerCase(transcript), <<"hey", " ", "dashboard">>)

C29_RateClamped ==
    /\ [](voiceSpeed \in 5..20)
    /\ [][HeardStep =>
             /\ heard'.last = <<"speak", " ", "slower">> =>
                   voiceSpeed' = IF voiceSpeed >= 7 THEN voiceSpeed - 2 ELSE 5
             /\ heard'.last = <<"speak", " ", "faster">> =>
                   voiceSpeed' = IF voiceSpeed <= 18 THEN voiceSpeed + 2 ELSE 20]_vars

\* four commands were heard, the last one a "speak faster" that raised the
\* rate from the floor 0.5 to 0.7
C29_Witness ==
    /\ heard.count = 4
    /\ heard.last = <<"speak", " ", "faster">>
    /\ voiceSpeed = 7
\* ---------------------------------------------------------------------- C30
\* the step in which utterance.onend is called
UtteranceCompletes == voice'.completed = voice.completed + 1
\* the step in which a setTimeout callback of the voice interface runs
RestartTimerRuns == voice'.timers = voice.timers - 1

\* C30: when an utterance completes in continuous listening with no recognition
\* session outstanding, a restart is scheduled; the scheduled callback, run with
\* no session outstanding, starts recognition; and once a restart is scheduled
\* with no session outstanding, a session is started without fail.
C30_ResumesAfterSpeech ==
    /\ [][UtteranceCompletes /\ voice.continuousListening /\ voice.rec = "inactive" =>
             voice'.timers = voice.timers + 1]_vars
    /\ [][RestartTimerRuns /\ voice.rec = "inactive" => voice'.rec = "starting"]_vars
    /\ (voice.timers > 0 /\ voice.rec = "inactive") ~> RecActive(voice)

\* in continuous listening the utterance has completed, the session that heard
\* nothing has ended, and the restart has started a new session
C30_Witness ==
    /\ voice.continuousListening
    /\ voice.completed = 1
    /\ voice.synth = "none"
    /\ voice.timers = 0
    /\ voice.rec = "starting"
    /\ ~voice.startRefused
\* ---------------------------------------------------------------------- C31
\* the step in which utterance.onerror is called for the utterance the
\* synthesizer holds: it leaves the synthesizer without an end event and
\* without a cancelled utterance
SynthesisErrorStep ==
    /\ InFlight(voice)
    /\ voice'.synth = "none"
    /\ voice'.completed = voice.completed
    /\ voice'.stale = voice.stale

\* C31: a synthesis error in continuous listening that leaves no recognition
\* session outstanding and no event of a cancelled utterance to come has a
\* resumption of listening scheduled.
C31_ResumesAfterSynthesisError ==
    [][SynthesisErrorStep /\ voice.continuousListening /\ voice.rec = "inactive"
          /\ voice.stale = 0 =>
             voice'.timers > 0]_vars
\* ---------------------------------------------------------------------- C32
\* C32: once the voice interface has started and holds the list of voices,
\* the settings in memory and the selected voice are those last saved.
C32_RestoredAsSaved ==
    persist.pc = "ready" /\ persist.voices /\ persist.saved.present =>
        /\ voiceSpeed = persist.saved.voiceSpeed
        /\ voice.continuousListening = persist.saved.continuousListening
        /\ persist.saved.currentVoiceName # 0 =>
              persist.currentVoice = persist.saved.currentVoiceName
\* ---------------------------------------------------------------------- C33
\* C33: no execution request carries an Intent that was understood with a
\* confidence of 0.7 or less.
C33_NoRequestBelowThreshold ==
    \A i \in 1..Len(execRequests) : execRequests[i].confidence > 70
\* ---------------------------------------------------------------------- C34
\* C34: no Intent is sent for execution twice (each understood submit produces
\* an Intent of its own, so two requests with one Intent are two confirms
\* without an understood submit between them).
C34_IntentExecutedOnce ==
    \A i, j \in 1..Len(execRequests) : i # j => execRequests[i] # execRequests[j]
\* ---------------------------------------------------------------------- C35
\* C35: when the startup has gone past the industry configuration step after a
\* failed industry request, either a retry of the request succeeded, or the
\* request failed twice and the feed holds the loader's warning naming
\* 'Industry Configurations'.
C35_IndustryConfigRetried ==
    (/\ Count(trace, <<"Industry Configurations", "fail">>) >= 1
     /\ Count(trace, <<"Statistics", "call">>) >= 1) =>
        \/ Count(trace, <<"Industry Configurations", "ok">>) = 1
        \/ /\ Count(trace, <<"Industry Configurations", "fail">>) = requiredRetries
           /\ Count(activityFeed, "unavailable:Industry Configurations") = 1
\* ---------------------------------------------------------------------- C36
\* C36: after a close the reconnect cycle is never left hanging: the connection
\* is open, or the terminal entry is in the feed, or the cycle is under way
\* with a socket that is alive or a reconnect timer that is pending.
C36_ReconnectCycleEnds ==
    (\E s \in 1..Len(sockets) : sockets[s] = "closed") =>
        \/ OpenCount >= 1
        \/ TerminalCount >= 1
        \/ \E s \in 1..Len(sockets) : Live(s)
        \/ reconnectTimers # <<>>
\* ---------------------------------------------------------------------- C37
\* C37: when the responses to all the submits have arrived and each of them
\* was an understanding result, the current Intent, if there is one, is the
\* one of the message submitted last.
C37_LatestSubmitWins ==
    (/\ understandPending = {}
     /\ submits >= 2
     /\ Count(chat, "understood") = submits
     /\ currentIntent # NoIntent) =>
        currentIntent.text = submits
\* ---------------------------------------------------------------------- C38
\* the step in which the response to a submit arrives
UnderstandResponseStep ==
    understandPending' # understandPending /\ understandPending' \subseteq understandPending

\* C38: while the chat is the greeting alone, every request still out was
\* submitted before the reset that left it so; the response to such a request
\* changes neither the chat nor the current Intent.
C38_ResponseAfterResetDropped ==
    [][UnderstandResponseStep /\ chat = <<"greeting">> =>
          chat' = chat /\ currentIntent' = currentIntent]_vars
\* the runs of loadInitialData that have not returned: the startup's and the
\* refreshes'
RunsInProgress ==
    (IF InProgress(load) THEN 1 ELSE 0)
    + Cardinality({i \in 1..Len(refreshRuns) : InProgress(refreshRuns[i].load)})

\* C39: at most one run of the initial data load is in progress at any time: a
\* refresh started by a discovery_completed or intent_execution_completed
\* frame, or by the 'refresh dashboard' command, never runs its required steps
\* while another run has not returned.
C39_OneRunInProgress == RunsInProgress <= 1

\* recognition.start() is called on an idle recognizer
RecognitionStarts == voice.rec = "inactive" /\ voice'.rec = "starting"

\* C40: after an explicit stop of listening (the stop button, Escape, the
\* 'stop listening' command) recognition is not started again until the user
\* starts listening or toggles continuous listening, with continuous listening
\* on or off.
C40_NoStartAfterExplicitStop ==
    [][voice.stopped /\ voice'.stopped => ~RecognitionStarts]_vars

====
